---------------------------- MODULE Spec2Model ----------------------------
(***************************************************************************)
(* Job/worker tracking service (api/app/main.py, schemas.py, models.py).   *)
(*                                                                         *)
(* The store is the PostgreSQL database behind SQLAlchemy: two tables,     *)
(* jobs and workers, with the foreign key workers.job_id -> jobs.id        *)
(* (ON DELETE CASCADE).  Every HTTP request runs its handler inside        *)
(* "with get_db() as db"; a handler is a sequence of SQL statements, and   *)
(* requests of different clients interleave between statements (the engine *)
(* is created with the default isolation level, READ COMMITTED, so every   *)
(* statement sees what is committed when it runs).  One action of the      *)
(* model is one statement (or one flush+commit) of one request.            *)
(*                                                                         *)
(* Optional values are sequences: None is <<>>, a present value v is <<v>>.*)
(* Strings that are searched (names, roles, keywords) are sequences of     *)
(* one-character strings; dates are small integers.                        *)
(***************************************************************************)
EXTENDS Integers, Sequences, FiniteSets, TLC

VARIABLES jobs, workers, job_seq, worker_seq, sess

vars == <<jobs, workers, job_seq, worker_seq, sess>>

---------------------------------------------------------------------------
(* Bounds of the model. *)

\* ids the jobs sequence may hand out
MaxJobs == 2
\* ids the workers sequence may hand out
MaxWorkers == 2
\* the largest date
MaxDate == 2

\* concurrent requests
Sessions == {"s1", "s2"}
\* the one request of the sequential specifications
OneSession == {"s1"}

---------------------------------------------------------------------------
(* Values. *)

None == <<>>
Some(v) == <<v>>
IsNone(o) == o = <<>>
Val(o) == o[1]

\* Python truthiness of an Optional[int]: None and 0 are falsy.
TruthyInt(o) == (~IsNone(o)) /\ Val(o) # 0
\* Python truthiness of an Optional[str]: None and "" are falsy.
TruthyStr(o) == (~IsNone(o)) /\ Len(Val(o)) > 0
\* Python truthiness of an Optional[date]: every date is truthy.
TruthyDate(o) == ~IsNone(o)

HTTP_200_OK == 200
HTTP_201_CREATED == 201
HTTP_204_NO_CONTENT == 204
HTTP_400_BAD_REQUEST == 400
HTTP_404_NOT_FOUND == 404
\* FastAPI's answer to a request whose body or parameters fail validation
\* (main.py registers no exception handler of its own)
HTTP_422_UNPROCESSABLE_ENTITY == 422
HTTP_500_INTERNAL_SERVER_ERROR == 500

MaxFieldLen == 100

\* schemas.JobBase.status: pattern "^(In Progress|Completed|Cancelled)$"
JobStatusPattern == {"In Progress", "Completed", "Cancelled"}
\* main.get_jobs status: pattern "^(Pending|In Progress|Completed|Cancelled)$"
QueryStatusPattern == {"Pending", "In Progress", "Completed", "Cancelled"}
\* schemas.SortField
SortField == {"name", "start_date", "customer", "status"}

Lower(c) ==
    CASE c = "A" -> "a"
      [] c = "B" -> "b"
      [] c = "R" -> "r"
      [] c = "W" -> "w"
      [] OTHER -> c

\* column.ilike("%" + kw + "%"): kw occurs in s, letter case ignored
ILike(s, kw) ==
    \E i \in 0..(Len(s) - Len(kw)) :
        \A k \in 1..Len(kw) : Lower(s[i + k]) = Lower(kw[k])

\* Field(..., min_length=1, max_length=100)
FieldOk(s) == Len(s) >= 1 /\ Len(s) <= MaxFieldLen

---------------------------------------------------------------------------
(* The store. *)

JobIds == {j.id : j \in jobs}
WorkerIds == {w.id : w \in workers}

\* db.query(Job).filter(Job.id == job_id).first(): the rows found (none or one)
QueryJob(id) == {j \in jobs : j.id = id}
\* db.query(Worker).filter(Worker.id == worker_id).first()
QueryWorker(id) == {w \in workers : w.id = id}
\* Job.workers: the workers whose job_id is the job's id
JobWorkers(id) == {w \in workers : w.job_id = Some(id)}

\* A faulty variant of ForeignKeyOk: the constraint is not enforced.
ForeignKeyOff(job_id, js) == TRUE

\* ForeignKey("jobs.id"): a worker row's job_id is NULL or the id of a job row
ForeignKeyOk(job_id, js) == IsNone(job_id) \/ Val(job_id) \in {j.id : j \in js}

\* A faulty variant of DeleteRows: neither the session nor the database cascades.
DeleteRowsNoCascade(ws, id, loaded) == ws

\* What a flush of db.delete(job) leaves of the workers table: the session
\* deletes the children it loaded (cascade="all, delete-orphan"), by primary
\* key, and the database deletes every row that still references the job
\* (ondelete="CASCADE").
DeleteRows(ws, id, loaded) == {w \in ws : w.id \notin loaded /\ w.job_id # Some(id)}

---------------------------------------------------------------------------
(* Requests. *)

NoResp == [status |-> 0, body |-> <<>>]

Idle == [pc |-> "idle", op |-> "none", req |-> <<>>, loc |-> <<>>,
         db |-> "none", committed |-> FALSE, resp |-> NoResp]

\* The handler is entered: get_db() opens a session.
Enter(op, req, pc) == [pc |-> pc, op |-> op, req |-> req, loc |-> <<>>,
                       db |-> "open", committed |-> FALSE, resp |-> NoResp]

\* get_db's finally: whatever way the handler is left, db.close() (and the
\* handler's locals are gone).
Exit(r, status, body) ==
    [r EXCEPT !.pc = "done", !.db = "closed", !.loc = <<>>,
              !.resp = [status |-> status, body |-> body]]

\* get_db's except SQLAlchemyError: db.rollback(), then a 500.
SqlError(r) == Exit(r, HTTP_500_INTERNAL_SERVER_ERROR, <<"Database error occurred">>)

\* The request never reaches the handler: FastAPI validates the body
\* (job: JobCreate, worker: WorkerCreate) and the Query(...) parameters before it
\* calls the handler and answers 422 itself when one fails.  No get_db session
\* is opened, and the "except ValueError" of create_job, which wraps only the
\* statements inside the handler, is not reached.
Rejected(op, req) ==
    [pc |-> "done", op |-> op, req |-> req, loc |-> <<>>,
     db |-> "none", committed |-> FALSE,
     resp |-> [status |-> HTTP_422_UNPROCESSABLE_ENTITY, body |-> <<"validation">>]]

Set(s, r) == sess' = [sess EXCEPT ![s] = r]

At(s, op, pc) == sess[s].op = op /\ sess[s].pc = pc

---------------------------------------------------------------------------
(* POST /jobs/ *)

\* JobBase.validate_dates: end_date must not be earlier than start_date
validate_dates(job) ==
    ~ (TruthyDate(job.start_date) /\ TruthyDate(job.end_date)
       /\ Val(job.end_date) < Val(job.start_date))

\* JobCreate(**body) validates
JobCreateOk(job) ==
    /\ FieldOk(job.name)
    /\ FieldOk(job.customer)
    /\ (IsNone(job.status) \/ Val(job.status) \in JobStatusPattern)
    /\ validate_dates(job)

\* create_job up to db.commit(): the row is inserted under the next id.
CreateJob(s, job) ==
    /\ sess[s].pc = "idle"
    /\ IF ~JobCreateOk(job)
       THEN /\ Set(s, Rejected("create_job", job))
            /\ UNCHANGED <<jobs, workers, job_seq, worker_seq>>
       ELSE /\ job_seq < MaxJobs
            /\ job_seq' = job_seq + 1
            /\ jobs' = jobs \cup {[id |-> job_seq + 1, name |-> job.name,
                                   customer |-> job.customer,
                                   start_date |-> job.start_date,
                                   end_date |-> job.end_date,
                                   status |-> job.status]}
            /\ Set(s, [Enter("create_job", job, "refresh")
                         EXCEPT !.committed = TRUE, !.loc = <<job_seq + 1>>])
            /\ UNCHANGED <<workers, worker_seq>>

\* db.refresh(db_job): an InvalidRequestError when the row is gone.
CreateJobRefresh(s) ==
    /\ At(s, "create_job", "refresh")
    /\ IF QueryJob(sess[s].loc[1]) = {}
       THEN Set(s, SqlError(sess[s]))
       ELSE Set(s, [sess[s] EXCEPT !.pc = "query"])
    /\ UNCHANGED <<jobs, workers, job_seq, worker_seq>>

\* return db.query(Job).options(joinedload(Job.workers)).filter(...).first()
\* (None, which is no JobResponse, when the row is gone)
CreateJobQuery(s) ==
    /\ At(s, "create_job", "query")
    /\ LET id == sess[s].loc[1] IN
       IF QueryJob(id) = {}
       THEN Set(s, Exit(sess[s], HTTP_500_INTERNAL_SERVER_ERROR, <<"Internal Server Error">>))
       ELSE Set(s, Exit(sess[s], HTTP_201_CREATED,
                        [job |-> CHOOSE j \in QueryJob(id) : TRUE,
                         workers |-> JobWorkers(id)]))
    /\ UNCHANGED <<jobs, workers, job_seq, worker_seq>>

---------------------------------------------------------------------------
(* DELETE /jobs/{job_id} *)

\* job = db.query(Job).filter(Job.id == job_id).first(); 404 if not job
DeleteJob(s, job_id) ==
    /\ sess[s].pc = "idle"
    /\ IF QueryJob(job_id) = {}
       THEN Set(s, Exit(Enter("delete_job", job_id, "query"), HTTP_404_NOT_FOUND, <<"Job not found">>))
       ELSE Set(s, Enter("delete_job", job_id, "delete"))
    /\ UNCHANGED <<jobs, workers, job_seq, worker_seq>>

\* db.delete(job): the delete cascade loads job.workers
DeleteJobLoad(s) ==
    /\ At(s, "delete_job", "delete")
    /\ Set(s, [sess[s] EXCEPT !.pc = "commit",
                              !.loc = {w.id : w \in JobWorkers(sess[s].req)}])
    /\ UNCHANGED <<jobs, workers, job_seq, worker_seq>>

\* db.commit(): the flush deletes the loaded children and the job row
DeleteJobCommit(s) ==
    /\ At(s, "delete_job", "commit")
    /\ workers' = DeleteRows(workers, sess[s].req, sess[s].loc)
    /\ jobs' = {j \in jobs : j.id # sess[s].req}
    /\ Set(s, Exit([sess[s] EXCEPT !.committed = TRUE], HTTP_204_NO_CONTENT, <<>>))
    /\ UNCHANGED <<job_seq, worker_seq>>

---------------------------------------------------------------------------
(* POST /workers/ *)

\* WorkerCreate(**body) validates
WorkerCreateOk(w) == FieldOk(w.name) /\ FieldOk(w.role)

\* create_worker up to the flush: "if worker.job_id:" looks the job up, 404 if
\* there is none; a falsy job_id (None, 0) is not looked up.  (A request that
\* will insert is taken only while the workers sequence has an id left for it.)
CreateWorker(s, w) ==
    /\ sess[s].pc = "idle"
    /\ IF ~WorkerCreateOk(w)
       THEN Set(s, Rejected("create_worker", w))
       ELSE IF TruthyInt(w.job_id) /\ QueryJob(Val(w.job_id)) = {}
       THEN Set(s, Exit(Enter("create_worker", w, "query"), HTTP_404_NOT_FOUND, <<"Job not found">>))
       ELSE /\ worker_seq + Cardinality({t \in Sessions : At(t, "create_worker", "commit")})
                 < MaxWorkers
            /\ Set(s, Enter("create_worker", w, "commit"))
    /\ UNCHANGED <<jobs, workers, job_seq, worker_seq>>

\* db.add(db_worker); db.commit(): the INSERT takes the next id and is refused
\* (IntegrityError) when job_id references no job row.
CreateWorkerCommit(s) ==
    /\ At(s, "create_worker", "commit")
    /\ worker_seq' = worker_seq + 1
    /\ LET w == sess[s].req IN
       IF ForeignKeyOk(w.job_id, jobs)
       THEN /\ workers' = workers \cup {[id |-> worker_seq + 1, name |-> w.name,
                                         role |-> w.role, job_id |-> w.job_id]}
            /\ Set(s, [sess[s] EXCEPT !.pc = "refresh", !.committed = TRUE,
                                      !.loc = <<worker_seq + 1>>])
       ELSE /\ workers' = workers
            /\ Set(s, SqlError(sess[s]))
    /\ UNCHANGED <<jobs, job_seq>>

\* db.refresh(db_worker); return db_worker
CreateWorkerRefresh(s) ==
    /\ At(s, "create_worker", "refresh")
    /\ LET found == QueryWorker(sess[s].loc[1]) IN
       IF found = {}
       THEN Set(s, SqlError(sess[s]))
       ELSE Set(s, Exit(sess[s], HTTP_201_CREATED, CHOOSE w \in found : TRUE))
    /\ UNCHANGED <<jobs, workers, job_seq, worker_seq>>

---------------------------------------------------------------------------
(* PUT /workers/{worker_id}/assign/{job_id} *)

\* worker = db.query(Worker).filter(Worker.id == worker_id).first(); 404 if not worker
AssignWorker(s, worker_id, job_id) ==
    /\ sess[s].pc = "idle"
    /\ LET req == [worker_id |-> worker_id, job_id |-> job_id]
           found == QueryWorker(worker_id) IN
       IF found = {}
       THEN Set(s, Exit(Enter("assign_worker", req, "worker"), HTTP_404_NOT_FOUND, <<"Worker not found">>))
       ELSE Set(s, [Enter("assign_worker", req, "job")
                      EXCEPT !.loc = (CHOOSE w \in found : TRUE).job_id])
    /\ UNCHANGED <<jobs, workers, job_seq, worker_seq>>

\* A faulty variant of AssignQueryJob: the job is not looked up.
AssignNoJobCheck(s) ==
    /\ At(s, "assign_worker", "job")
    /\ Set(s, [sess[s] EXCEPT !.pc = "commit"])
    /\ UNCHANGED <<jobs, workers, job_seq, worker_seq>>

\* job = db.query(Job).filter(Job.id == job_id).first(); 404 if not job
AssignQueryJob(s) ==
    /\ At(s, "assign_worker", "job")
    /\ IF QueryJob(sess[s].req.job_id) = {}
       THEN Set(s, Exit(sess[s], HTTP_404_NOT_FOUND, <<"Job not found">>))
       ELSE Set(s, [sess[s] EXCEPT !.pc = "commit"])
    /\ UNCHANGED <<jobs, workers, job_seq, worker_seq>>

\* worker.job_id = job_id; db.commit(): no UPDATE when the loaded worker already
\* has that job_id; else the UPDATE fails when the worker row is gone
\* (StaleDataError) or the job row is gone (IntegrityError).
AssignCommit(s) ==
    /\ At(s, "assign_worker", "commit")
    /\ LET wid == sess[s].req.worker_id
           jid == sess[s].req.job_id IN
       IF sess[s].loc = Some(jid)
       THEN /\ workers' = workers
            /\ Set(s, [sess[s] EXCEPT !.pc = "refresh"])
       ELSE IF QueryWorker(wid) = {} \/ ~ForeignKeyOk(Some(jid), jobs)
       THEN /\ workers' = workers
            /\ Set(s, SqlError(sess[s]))
       ELSE /\ workers' = {IF w.id = wid THEN [w EXCEPT !.job_id = Some(jid)] ELSE w
                           : w \in workers}
            /\ Set(s, [sess[s] EXCEPT !.pc = "refresh", !.committed = TRUE])
    /\ UNCHANGED <<jobs, job_seq, worker_seq>>

\* db.refresh(worker); return worker
AssignRefresh(s) ==
    /\ At(s, "assign_worker", "refresh")
    /\ LET found == QueryWorker(sess[s].req.worker_id) IN
       IF found = {}
       THEN Set(s, SqlError(sess[s]))
       ELSE Set(s, Exit(sess[s], HTTP_200_OK, CHOOSE w \in found : TRUE))
    /\ UNCHANGED <<jobs, workers, job_seq, worker_seq>>

---------------------------------------------------------------------------
(* GET /analytics/ *)

RECURSIVE SumOver(_, _)
\* sum(d.values()) of a dict d, over the keys ks
SumOver(d, ks) ==
    IF ks = {} THEN 0
    ELSE LET k == CHOOSE x \in ks : TRUE IN d[k] + SumOver(d, ks \ {k})

SumValues(d) == SumOver(d, DOMAIN d)

\* SELECT status, count(id) FROM jobs GROUP BY status
StatusCounts ==
    {<<st, Cardinality({j \in jobs : j.status = st})>> : st \in {j.status : j \in jobs}}

\* SELECT role, count(id) FROM workers GROUP BY role
RoleCounts ==
    {<<r, Cardinality({w \in workers : w.role = r})>> : r \in {w.role : w \in workers}}

\* status if status else "Unspecified"
StatusKey(st) == IF TruthyStr(st) THEN Val(st) ELSE "Unspecified"

\* {status if status else "Unspecified": count for status, count in status_counts}
StatusDict(rows) ==
    [k \in {StatusKey(r[1]) : r \in rows} |->
        (CHOOSE r \in rows : StatusKey(r[1]) = k)[2]]

\* dict(role_counts)
RoleDict(rows) ==
    [k \in {r[1] : r \in rows} |-> (CHOOSE r \in rows : r[1] = k)[2]]

\* total_jobs = db.query(func.count(Job.id)).scalar()
Analytics(s) ==
    /\ sess[s].pc = "idle"
    /\ Set(s, [Enter("get_analytics", <<>>, "status")
                 EXCEPT !.loc = [total_jobs |-> Cardinality(jobs)]])
    /\ UNCHANGED <<jobs, workers, job_seq, worker_seq>>

\* status_counts = ... .group_by(Job.status).all(); jobs_by_status = {...}
AnalyticsStatus(s) ==
    /\ At(s, "get_analytics", "status")
    /\ Set(s, [sess[s] EXCEPT !.pc = "workers",
           !.loc = [total_jobs |-> sess[s].loc.total_jobs,
                    jobs_by_status |-> StatusDict(StatusCounts)]])
    /\ UNCHANGED <<jobs, workers, job_seq, worker_seq>>

\* total_workers = db.query(func.count(Worker.id)).scalar()
AnalyticsWorkers(s) ==
    /\ At(s, "get_analytics", "workers")
    /\ Set(s, [sess[s] EXCEPT !.pc = "roles",
           !.loc = [total_jobs |-> sess[s].loc.total_jobs,
                    jobs_by_status |-> sess[s].loc.jobs_by_status,
                    total_workers |-> Cardinality(workers)]])
    /\ UNCHANGED <<jobs, workers, job_seq, worker_seq>>

\* role_counts = ... .group_by(Worker.role).all(); return {...}
AnalyticsRoles(s) ==
    /\ At(s, "get_analytics", "roles")
    /\ Set(s, Exit([sess[s] EXCEPT !.loc = <<>>], HTTP_200_OK,
                   [total_jobs |-> sess[s].loc.total_jobs,
                    jobs_by_status |-> sess[s].loc.jobs_by_status,
                    total_workers |-> sess[s].loc.total_workers,
                    workers_by_role |-> RoleDict(RoleCounts)]))
    /\ UNCHANGED <<jobs, workers, job_seq, worker_seq>>

---------------------------------------------------------------------------
(* GET /jobs/ *)

\* The Query(...) declarations of get_jobs: keyword of 1..100 characters, status
\* matching the pattern, sort_by a SortField.
JobsQueryOk(f) ==
    /\ (IsNone(f.keyword) \/ FieldOk(Val(f.keyword)))
    /\ (IsNone(f.status) \/ Val(f.status) \in QueryStatusPattern)
    /\ (IsNone(f.sort_by) \/ Val(f.sort_by) \in SortField)

\* A faulty variant of BadRange: a range whose two ends are the same day is refused too.
BadRangeStrict(f) ==
    TruthyDate(f.start_after) /\ TruthyDate(f.end_before)
        /\ Val(f.start_after) >= Val(f.end_before)

\* if start_after and end_before and start_after > end_before
BadRange(f) ==
    TruthyDate(f.start_after) /\ TruthyDate(f.end_before)
        /\ Val(f.start_after) > Val(f.end_before)

\* The filters of get_jobs on one row (a comparison with a NULL date is not true).
JobMatches(j, f) ==
    /\ TruthyStr(f.keyword) =>
          ILike(j.name, Val(f.keyword)) \/ ILike(j.customer, Val(f.keyword))
    /\ TruthyStr(f.status) => j.status = f.status
    /\ TruthyDate(f.start_after) =>
          (~IsNone(j.start_date)) /\ Val(j.start_date) >= Val(f.start_after)
    /\ TruthyDate(f.end_before) =>
          (~IsNone(j.end_date)) /\ Val(j.end_date) <= Val(f.end_before)

\* get_jobs: one SELECT.  The rows are returned as a set: the ORDER BY of
\* sort_by/desc is not modelled.
ListJobs(s, f) ==
    /\ sess[s].pc = "idle"
    /\ IF ~JobsQueryOk(f)
       THEN Set(s, Rejected("get_jobs", f))
       ELSE IF BadRange(f)
       THEN Set(s, Exit(Enter("get_jobs", f, "query"), HTTP_400_BAD_REQUEST, <<"start_after date must be before end_before date">>))
       ELSE Set(s, Exit(Enter("get_jobs", f, "query"), HTTP_200_OK,
                        {[job |-> j, workers |-> JobWorkers(j.id)] :
                            j \in {x \in jobs : JobMatches(x, f)}}))
    /\ UNCHANGED <<jobs, workers, job_seq, worker_seq>>

(* GET /jobs/{job_id} *)
GetJob(s, job_id) ==
    /\ sess[s].pc = "idle"
    /\ IF QueryJob(job_id) = {}
       THEN Set(s, Exit(Enter("get_job_by_id", job_id, "query"), HTTP_404_NOT_FOUND, <<"Job not found">>))
       ELSE Set(s, Exit(Enter("get_job_by_id", job_id, "query"), HTTP_200_OK,
                        [job |-> CHOOSE j \in QueryJob(job_id) : TRUE,
                         workers |-> JobWorkers(job_id)]))
    /\ UNCHANGED <<jobs, workers, job_seq, worker_seq>>

---------------------------------------------------------------------------
(* GET /workers/ *)

\* The filters of get_workers on one row: "if name:", "if role:", "if job_id:".
WorkerMatches(w, f) ==
    /\ TruthyStr(f.name) => ILike(w.name, Val(f.name))
    /\ TruthyStr(f.role) => ILike(w.role, Val(f.role))
    /\ TruthyInt(f.job_id) => w.job_id = f.job_id

\* get_workers: one SELECT
ListWorkers(s, f) ==
    /\ sess[s].pc = "idle"
    /\ Set(s, Exit(Enter("get_workers", f, "query"), HTTP_200_OK,
                   {w \in workers : WorkerMatches(w, f)}))
    /\ UNCHANGED <<jobs, workers, job_seq, worker_seq>>

(* GET /jobs/{job_id}/workers/ *)

\* job = db.query(Job).filter(Job.id == job_id).first(); 404 if not job
ListJobWorkers(s, job_id) ==
    /\ sess[s].pc = "idle"
    /\ IF QueryJob(job_id) = {}
       THEN Set(s, Exit(Enter("get_job_workers", job_id, "query"), HTTP_404_NOT_FOUND, <<"Job not found">>))
       ELSE Set(s, Enter("get_job_workers", job_id, "load"))
    /\ UNCHANGED <<jobs, workers, job_seq, worker_seq>>

\* return job.workers (loaded on access)
ListJobWorkersLoad(s) ==
    /\ At(s, "get_job_workers", "load")
    /\ Set(s, Exit(sess[s], HTTP_200_OK, JobWorkers(sess[s].req)))
    /\ UNCHANGED <<jobs, workers, job_seq, worker_seq>>

---------------------------------------------------------------------------
\* The response is sent; the client may send its next request.
Respond(s) ==
    /\ sess[s].pc = "done"
    /\ Set(s, Idle)
    /\ UNCHANGED <<jobs, workers, job_seq, worker_seq>>

---------------------------------------------------------------------------
(* The requests the clients send. *)

OptDates == {None} \cup {Some(d) : d \in 1..MaxDate}
JobIdArgs == {None} \cup {Some(i) : i \in (-1)..MaxJobs}

PlainJob == [name |-> <<"A", "b">>, customer |-> <<"R">>, start_date |-> None,
             end_date |-> None, status |-> None]

\* Job bodies: every pair of dates, every status, an empty name.
JobInputs ==
    {[PlainJob EXCEPT !.start_date = a, !.end_date = b] : a \in OptDates, b \in OptDates}
    \cup {[PlainJob EXCEPT !.status = Some(st)] :
            st \in {"Pending", "In Progress", "Completed", "Cancelled", "On Hold"}}
    \cup {[PlainJob EXCEPT !.name = <<>>]}

\* get_jobs parameters: a keyword, a status the pattern takes and one it refuses,
\* every pair of dates.
JobFilters ==
    [keyword : {None, Some(<<"a">>)},
     status : {None, Some("Completed"), Some("On Hold")},
     start_after : OptDates, end_before : OptDates,
     sort_by : {None, Some("name")}, desc : {FALSE}]

\* Worker bodies: two roles, every job_id from -1 up, an empty name.
WorkerInputs ==
    {[name |-> <<"W">>, role |-> r, job_id |-> jid] :
        r \in {<<"r">>, <<"B">>}, jid \in JobIdArgs}
    \cup {[name |-> <<>>, role |-> <<"r">>, job_id |-> None]}

\* get_workers parameters: every job_id from -1 up.
WorkerFilters ==
    [name : {None, Some(<<"w">>)}, role : {None, Some(<<"b">>)}, job_id : JobIdArgs]

\* The bodies sent by the concurrent clients.
WorkerInputsSmall ==
    {[name |-> <<"W">>, role |-> <<"r">>, job_id |-> jid] :
        jid \in {None} \cup {Some(i) : i \in 0..MaxJobs}}

JobInputsStatus == {PlainJob, [PlainJob EXCEPT !.status = Some("Completed")]}

WorkerInputsRoles ==
    {[name |-> <<"W">>, role |-> r, job_id |-> None] : r \in {<<"r">>, <<"B">>}}

---------------------------------------------------------------------------
Init ==
    /\ jobs = {}
    /\ workers = {}
    /\ job_seq = 0
    /\ worker_seq = 0
    /\ sess = [s \in Sessions |-> Idle]

\* Concurrent clients creating and deleting jobs, creating and assigning workers.
Next ==
    \E s \in Sessions :
        \/ CreateJob(s, PlainJob)
        \/ CreateJobRefresh(s)
        \/ CreateJobQuery(s)
        \/ \E id \in 1..MaxJobs : DeleteJob(s, id)
        \/ DeleteJobLoad(s)
        \/ DeleteJobCommit(s)
        \/ \E w \in WorkerInputsSmall : CreateWorker(s, w)
        \/ CreateWorkerCommit(s)
        \/ CreateWorkerRefresh(s)
        \/ \E wid \in 1..MaxWorkers, jid \in 1..MaxJobs : AssignWorker(s, wid, jid)
        \/ AssignQueryJob(s)
        \/ AssignCommit(s)
        \/ AssignRefresh(s)
        \/ Respond(s)

Spec == Init /\ [][Next]_vars

\* Concurrent clients reading the analytics while jobs and workers come and go.
NextAnalytics ==
    \E s \in Sessions :
        \/ \E job \in JobInputsStatus : CreateJob(s, job)
        \/ CreateJobRefresh(s)
        \/ CreateJobQuery(s)
        \/ \E id \in 1..MaxJobs : DeleteJob(s, id)
        \/ DeleteJobLoad(s)
        \/ DeleteJobCommit(s)
        \/ \E w \in WorkerInputsRoles : CreateWorker(s, w)
        \/ CreateWorkerCommit(s)
        \/ CreateWorkerRefresh(s)
        \/ Analytics(s)
        \/ AnalyticsStatus(s)
        \/ AnalyticsWorkers(s)
        \/ AnalyticsRoles(s)
        \/ Respond(s)

SpecAnalytics == Init /\ [][NextAnalytics]_vars

\* One client at a time, the jobs API with every body and every filter.
NextJobs ==
    \E s \in OneSession :
        \/ \E job \in JobInputs : CreateJob(s, job)
        \/ CreateJobRefresh(s)
        \/ CreateJobQuery(s)
        \/ \E id \in 0..MaxJobs : DeleteJob(s, id)
        \/ DeleteJobLoad(s)
        \/ DeleteJobCommit(s)
        \/ \E f \in JobFilters : ListJobs(s, f)
        \/ \E id \in 0..MaxJobs : GetJob(s, id)
        \/ Respond(s)

SpecJobs == Init /\ [][NextJobs]_vars

\* One client at a time, the workers API with every body and every filter.
NextWorkers ==
    \E s \in OneSession :
        \/ CreateJob(s, PlainJob)
        \/ CreateJobRefresh(s)
        \/ CreateJobQuery(s)
        \/ \E id \in 1..MaxJobs : DeleteJob(s, id)
        \/ DeleteJobLoad(s)
        \/ DeleteJobCommit(s)
        \/ \E w \in WorkerInputs : CreateWorker(s, w)
        \/ CreateWorkerCommit(s)
        \/ CreateWorkerRefresh(s)
        \/ \E wid \in 0..MaxWorkers, jid \in 0..MaxJobs : AssignWorker(s, wid, jid)
        \/ AssignQueryJob(s)
        \/ AssignCommit(s)
        \/ AssignRefresh(s)
        \/ \E f \in WorkerFilters : ListWorkers(s, f)
        \/ \E id \in 0..MaxJobs : ListJobWorkers(s, id)
        \/ ListJobWorkersLoad(s)
        \/ Respond(s)

SpecWorkers == Init /\ [][NextWorkers]_vars

---------------------------------------------------------------------------
(* Properties. *)

Done(s, op) == sess[s].pc = "done" /\ sess[s].op = op

\* C1: in every reachable state, under every interleaving of create_job,
\* delete_job, create_worker and assign_worker requests, every worker whose
\* job_id is set references a job that exists.
C1_WorkerJobExists ==
    \A w \in workers : (~IsNone(w.job_id)) => Val(w.job_id) \in JobIds

\* A create_worker found its job, a concurrent delete_job of that job committed,
\* and the INSERT was refused, while another worker is assigned to a job.
C1_Witness ==
    /\ \E s \in Sessions :
          /\ Done(s, "create_worker")
          /\ TruthyInt(sess[s].req.job_id)
          /\ sess[s].resp.status = HTTP_500_INTERNAL_SERVER_ERROR
          /\ ~sess[s].committed
    /\ \E w \in workers : ~IsNone(w.job_id)

\* C2: after a delete_job answered 204, the job is absent and no worker with
\* that job_id remains.
C2_DeleteCascades ==
    \A s \in Sessions :
        (Done(s, "delete_job") /\ sess[s].resp.status = HTTP_204_NO_CONTENT) =>
            QueryJob(sess[s].req) = {} /\ JobWorkers(sess[s].req) = {}

\* A delete_job answered 204, and a worker that another request had created
\* for that job is gone with it.
C2_Witness ==
    \E s \in Sessions, t \in Sessions :
        /\ Done(s, "delete_job")
        /\ sess[s].resp.status = HTTP_204_NO_CONTENT
        /\ Done(t, "create_worker")
        /\ sess[t].resp.status = HTTP_201_CREATED
        /\ sess[t].resp.body.job_id = Some(sess[s].req)
        /\ sess[t].resp.body.id \notin WorkerIds

\* C3: a create_job whose end_date is earlier than its start_date is answered
\* 400 and persists nothing, so every stored job with both dates has
\* end_date >= start_date.
C3_BadDatesRefused ==
    /\ \A s \in OneSession :
          (/\ Done(s, "create_job")
           /\ ~IsNone(sess[s].req.start_date)
           /\ ~IsNone(sess[s].req.end_date)
           /\ Val(sess[s].req.end_date) < Val(sess[s].req.start_date)) =>
              sess[s].resp.status = HTTP_400_BAD_REQUEST /\ ~sess[s].committed
    /\ \A j \in jobs :
          ((~IsNone(j.start_date)) /\ ~IsNone(j.end_date)) =>
              Val(j.end_date) >= Val(j.start_date)

\* C4: assign_worker is answered 404 exactly when the worker or the job does
\* not exist; otherwise it succeeds, the worker's job_id is the given job and
\* the stored worker is what is returned.
C4_Assign ==
    \A s \in OneSession :
        Done(s, "assign_worker") =>
            LET wid == sess[s].req.worker_id
                jid == sess[s].req.job_id IN
            /\ sess[s].resp.status = HTTP_404_NOT_FOUND
                  <=> (wid \notin WorkerIds \/ jid \notin JobIds)
            /\ sess[s].resp.status # HTTP_404_NOT_FOUND =>
                  /\ sess[s].resp.status = HTTP_200_OK
                  /\ sess[s].resp.body.id = wid
                  /\ sess[s].resp.body.job_id = Some(jid)
                  /\ sess[s].resp.body \in workers

\* An assign_worker succeeded while two jobs and two workers exist: the worker
\* is on the job asked for, the other worker on the other job.
C4_Witness ==
    \E s \in OneSession :
        /\ Done(s, "assign_worker")
        /\ sess[s].resp.status = HTTP_200_OK
        /\ sess[s].resp.body.job_id = Some(sess[s].req.job_id)
        /\ \E w \in workers :
              /\ w.id # sess[s].req.worker_id
              /\ ~IsNone(w.job_id)
              /\ w.job_id # Some(sess[s].req.job_id)

\* C5: in every get_analytics response, total_jobs is the sum of the counts of
\* jobs_by_status and total_workers the sum of the counts of workers_by_role.
C5_TotalsMatch ==
    \A s \in Sessions :
        Done(s, "get_analytics") =>
            /\ sess[s].resp.body.total_jobs = SumValues(sess[s].resp.body.jobs_by_status)
            /\ sess[s].resp.body.total_workers = SumValues(sess[s].resp.body.workers_by_role)

\* C6: a create_worker whose job_id is given and identifies no job is answered
\* 404 and persists no worker.
C6_UnknownJobIs404 ==
    \A s \in OneSession :
        (/\ Done(s, "create_worker")
         /\ WorkerCreateOk(sess[s].req)
         /\ ~IsNone(sess[s].req.job_id)
         /\ Val(sess[s].req.job_id) \notin JobIds) =>
            sess[s].resp.status = HTTP_404_NOT_FOUND /\ ~sess[s].committed

\* The statuses the data model allows.
C7_Statuses == {"Pending", "In Progress", "Completed", "Cancelled"}

\* C7: a create_job with a valid name, customer and dates and a status that is
\* absent or one of Pending, In Progress, Completed, Cancelled is answered 201,
\* the job is stored under an id no other job has, and the response holds it
\* with no workers.
C7_CreateJobSucceeds ==
    \A s \in OneSession :
        (/\ Done(s, "create_job")
         /\ FieldOk(sess[s].req.name)
         /\ FieldOk(sess[s].req.customer)
         /\ validate_dates(sess[s].req)
         /\ (IsNone(sess[s].req.status) \/ Val(sess[s].req.status) \in C7_Statuses)) =>
            /\ sess[s].resp.status = HTTP_201_CREATED
            /\ sess[s].resp.body.workers = {}
            /\ sess[s].resp.body.job \in jobs
            /\ sess[s].resp.body.job.status = sess[s].req.status
            /\ Cardinality({j \in jobs : j.id = sess[s].resp.body.job.id}) = 1

\* start_after and end_before are both given and start_after > end_before
C8_Inverted(f) ==
    /\ ~IsNone(f.start_after)
    /\ ~IsNone(f.end_before)
    /\ Val(f.start_after) > Val(f.end_before)

C9_ListWorkersByJob ==
    \A s \in OneSession :
        Done(s, "get_workers") =>
            sess[s].resp.body =
                {w \in workers :
                    /\ TruthyStr(sess[s].req.name) => ILike(w.name, Val(sess[s].req.name))
                    /\ TruthyStr(sess[s].req.role) => ILike(w.role, Val(sess[s].req.role))
                    /\ (~IsNone(sess[s].req.job_id)) => w.job_id = sess[s].req.job_id}

\* C10: a request answered with an error (400, 404 or 500) has committed
\* nothing, and the session of every answered request is closed.
C10_ErrorsCommitNothing ==
    \A s \in Sessions :
        sess[s].pc = "done" =>
            /\ sess[s].resp.status \in {HTTP_400_BAD_REQUEST, HTTP_404_NOT_FOUND,
                                        HTTP_500_INTERNAL_SERVER_ERROR}
                  => ~sess[s].committed
            /\ sess[s].db # "open"

===========================================================================
